---- MODULE Spec2Model ----
(***************************************************************************)
(* A model of phoenix4all's grid core (src/src/phoenix4all/sources/core.py) *)
(*                                                                         *)
(* Numbers.  teff is an integer in the source and logg, feh, alpha are     *)
(* floats; here every axis value is an integer of a small lattice and      *)
(* every computed quotient (an interpolation fraction, a weight, a         *)
(* resampled amplitude) is an exact rational <<numerator, denominator>>    *)
(* in lowest terms with a positive denominator.  Floating-point rounding   *)
(* is therefore outside the model: "1.0" below means exactly one.          *)
(*                                                                         *)
(* Units.  The astropy units of the sampling axes and amplitudes are not   *)
(* modelled: all spectra are taken to be in one unit, and every sampling   *)
(* axis is increasing, as np.interp requires of its xp argument.           *)
(*                                                                         *)
(* Inputs.  Record lists and weighted-record lists are non-empty.          *)
(***************************************************************************)
EXTENDS Integers, Sequences, FiniteSets, TLC

(***************************************************************************)
(* Bounds of the model.                                                    *)
(***************************************************************************)
\* teff values and teff queries range over 0..MaxTeff
MaxTeff == 4
\* longest arbitrary (sparse) record list enumerated as input
MaxSparse == 2
\* most records a listing repeats after a complete lattice
MaxRepeat == 1

\* most weighted records handed to compute_weighted_flux
MaxSpectra == 2

\* values a record can take on each of logg, feh, alpha (and on teff in the
\* sparse lists), and the queries on those axes: below, between, above
LatticeValues == {0, 2}
LatticeQueries == {0, 1, 2}
TeffValues == 0..MaxTeff

(***************************************************************************)
(* Exact rationals.                                                        *)
(***************************************************************************)
Abs(x) == IF x < 0 THEN -x ELSE x

RECURSIVE Gcd(_, _)
Gcd(a, b) == IF b = 0 THEN a ELSE Gcd(b, a % b)

\* n/d in lowest terms, d # 0
Rat(n, d) ==
    LET g == Gcd(Abs(n), Abs(d))
        s == IF d < 0 THEN -1 ELSE 1
    IN  <<(s * n) \div g, (s * d) \div g>>

RInt(n) == <<n, 1>>
RMul(a, b) == Rat(a[1] * b[1], a[2] * b[2])
RAdd(a, b) == Rat(a[1] * b[2] + b[1] * a[2], a[2] * b[2])
RSub(a, b) == Rat(a[1] * b[2] - b[1] * a[2], a[2] * b[2])
RPos(a) == a[1] > 0
RLess(a, b) == a[1] * b[2] < b[1] * a[2]

RECURSIVE RSum(_)
RSum(s) == IF s = <<>> THEN RInt(0) ELSE RAdd(Head(s), RSum(Tail(s)))

(***************************************************************************)
(* Sequence helpers standing for pandas / numpy / Python primitives.       *)
(***************************************************************************)
Range(s) == {s[i] : i \in DOMAIN s}

SetMin(S) == CHOOSE x \in S : \A y \in S : x <= y
SetMax(S) == CHOOSE x \in S : \A y \in S : x >= y

\* Python's sorted() on a collection of distinct numbers
RECURSIVE sorted(_)
sorted(S) == IF S = {} THEN <<>> ELSE <<SetMin(S)>> \o sorted(S \ {SetMin(S)})

\* list.index(x), 0-based as in Python
ListIndex(s, x) == (CHOOSE i \in DOMAIN s : s[i] = x /\ \A j \in 1..(i - 1) : s[j] # x) - 1

(***************************************************************************)
(* PhoenixDataFile and the DataFrame.                                      *)
(***************************************************************************)
Axes == <<"teff", "logg", "feh", "alpha">>
DataFileFields == {"teff", "logg", "feh", "filename", "alpha"}

PhoenixDataFile(t, g, f, a, name) ==
    [teff |-> t, logg |-> g, feh |-> f, alpha |-> a, filename |-> name]

\* A DataFrame: its rows in order (each row carries its index key and its
\* remaining cells), the names of the index levels and the column names left.
NoFrame == [rows |-> <<>>, index_names |-> <<>>, columns |-> {}]

construct_phoenix_dataframe(datafile_list) ==
    [rows |-> datafile_list,
     index_names |-> Axes,
     columns |-> DataFileFields \ Range(Axes)]

\* df.index.get_level_values(axis).unique(), as the set of values present
LevelValues(rows, axis) == {rows[i][axis] : i \in DOMAIN rows}

(***************************************************************************)
(* find_nearest_points                                                     *)
(***************************************************************************)
\* values[np.abs(values - target).argsort()[:2]]: the (at most) two values
\* nearest the target.  argsort's default sort is not stable, so when two
\* values tie for the second place either may be taken: the set of outcomes.
\* TwoSmallest is values[values.argsort()[:2]]: the target not subtracted.
TwoSmallest(values, target) ==
    IF Cardinality(values) <= 2 THEN {values}
    ELSE {{SetMin(values), SetMin(values \ {SetMin(values)})}}
TwoClosest(values, target) ==
    IF Cardinality(values) <= 2 THEN {values}
    ELSE {S \in {{a, b} : a, b \in values} :
            /\ Cardinality(S) = 2
            /\ \A s \in S : \A o \in values \ S : Abs(s - target) <= Abs(o - target)}

\* if np.any(closest == target): closest = np.array([target])
ExactCollapse(closest, target) == IF target \in closest THEN {target} ELSE closest

\* lines 50-52 on the distinct values of one axis: the possible selections
BracketValues(values, target) ==
    {ExactCollapse(c, target) : c \in TwoClosest(values, target)}

\* the possible selections on one axis
AxisSelections(rows, axis, target) == BracketValues(LevelValues(rows, axis), target)

\* df.loc[df.index.get_level_values(axis).isin(closest)]: the rows whose
\* value is among the closest, in their order
FilterAxis(rows, axis, closest) ==
    LET Keep(r) == r[axis] \in closest IN SelectSeq(rows, Keep)

\* one bracket-and-filter step: the possible surviving row lists
AxisStep(rowsets, axis, target) ==
    UNION {{FilterAxis(rows, axis, c) : c \in AxisSelections(rows, axis, target)} :
           rows \in rowsets}

\* the steps applied in the order given by the sequence of axis names
RECURSIVE StepsInOrder(_, _, _)
StepsInOrder(rowsets, order, q) ==
    IF order = <<>> THEN rowsets
    ELSE StepsInOrder(AxisStep(rowsets, Head(order), q[Head(order)]), Tail(order), q)

\* find_nearest_points returning df_f: the alpha step left out
find_nearest_points_without_alpha(df, q) ==
    {[df EXCEPT !.rows = rows] : rows \in StepsInOrder({df.rows}, <<"teff", "logg", "feh">>, q)}

\* the data frames find_nearest_points can return
find_nearest_points(df, q) ==
    {[df EXCEPT !.rows = rows] : rows \in StepsInOrder({df.rows}, Axes, q)}

(***************************************************************************)
(* compute_weights                                                         *)
(***************************************************************************)
\* the interpolation fraction of one axis (lines 96-103)
AxisFraction(param_val, param_values) ==
    IF Len(param_values) = 1 THEN RInt(0)
    ELSE LET lower == SetMin(Range(param_values))
             upper == SetMax(Range(param_values))
         IN  Rat(param_val - lower, upper - lower)

\* the two fractions exchanged: t for the lower value, 1 - t for the upper
AxisFactorExchanged(i, t, vals) ==
    IF Len(vals) = 1 THEN RInt(1)
    ELSE IF i = 0 THEN t ELSE RSub(RInt(1), t)

\* (1 - t) if i == 0 else t if len(vals) > 1 else 1   (lines 115-121)
AxisFactor(i, t, vals) ==
    IF i = 0 THEN RSub(RInt(1), t)
    ELSE IF Len(vals) > 1 THEN t ELSE RInt(1)

RowWeight(row, q, nearest_rows) ==
    LET Vals(axis) == sorted(LevelValues(nearest_rows, axis))
        F(axis) == AxisFactor(ListIndex(Vals(axis), row[axis]),
                              AxisFraction(q[axis], Vals(axis)),
                              Vals(axis))
    IN  RMul(RMul(F("teff"), F("logg")), RMul(F("feh"), F("alpha")))

WeightedPhoenixDataFile(row, w) ==
    [teff |-> row.teff, logg |-> row.logg, feh |-> row.feh, alpha |-> row.alpha,
     filename |-> row.filename, weight |-> w]

\* the list of weighted records (lines 125-134): rows of positive weight
compute_weights(nearest_df, q) ==
    LET rows == nearest_df.rows
        Positive(r) == RPos(RowWeight(r, q, rows))
        kept == SelectSeq(rows, Positive)
    IN  [i \in DOMAIN kept |-> WeightedPhoenixDataFile(kept[i], RowWeight(kept[i], q, rows))]

(***************************************************************************)
(* find_nearest_datafile                                                   *)
(***************************************************************************)
KeyError == [error |-> "KeyError"]

\* squared distance: sqrt is monotone, so idxmin is decided by the square
Distance2(row, q) ==
    (row.teff - q.teff) * (row.teff - q.teff) + (row.logg - q.logg) * (row.logg - q.logg)
    + (row.feh - q.feh) * (row.feh - q.feh) + (row.alpha - q.alpha) * (row.alpha - q.alpha)

\* df["teff"] ... df["alpha"] are column lookups: KeyError when the frame has
\* no such column; otherwise the first row at the minimal distance
find_nearest_datafile(df, q) ==
    IF ~(Range(Axes) \subseteq df.columns) THEN KeyError
    ELSE LET min_idx == CHOOSE i \in DOMAIN df.rows :
                 /\ \A j \in DOMAIN df.rows : Distance2(df.rows[i], q) <= Distance2(df.rows[j], q)
                 /\ \A j \in 1..(i - 1) : Distance2(df.rows[j], q) > Distance2(df.rows[i], q)
             row == df.rows[min_idx]
         IN  PhoenixDataFile(row.teff, row.logg, row.feh, row.alpha, row.filename)

(***************************************************************************)
(* Inputs: the record lists and the query points.                          *)
(***************************************************************************)
\* a list of keys with the file names 1, 2, ... given in list order
Named(keys) == [i \in DOMAIN keys |-> PhoenixDataFile(keys[i][1], keys[i][2], keys[i][3], keys[i][4], i)]

LatticeKeys == LatticeValues \X LatticeValues \X LatticeValues \X LatticeValues

\* lexicographic order of keys, the order a directory listing gives
KeyLeq(a, b) ==
    \/ a[1] < b[1]
    \/ a[1] = b[1] /\ a[2] < b[2]
    \/ a[1] = b[1] /\ a[2] = b[2] /\ a[3] < b[3]
    \/ a[1] = b[1] /\ a[2] = b[2] /\ a[3] = b[3] /\ a[4] <= b[4]

\* arbitrary listings of 1..MaxSparse keys of the lattice, repeats included
SparseLists ==
    UNION {{l \in [1..n -> LatticeKeys] : \A i \in 1..(n - 1) : KeyLeq(l[i], l[i + 1])} :
           n \in 1..MaxSparse}

\* the complete grid Ts x Gs x Fs x As, listed in lexicographic order
ProductList(Ts, Gs, Fs, As) ==
    LET ts == sorted(Ts)
        gs == sorted(Gs)
        fs == sorted(Fs)
        as == sorted(As)
        n  == Len(ts) * Len(gs) * Len(fs) * Len(as)
    IN  [k \in 1..n |->
            <<ts[((k - 1) \div (Len(gs) * Len(fs) * Len(as))) + 1],
              gs[(((k - 1) \div (Len(fs) * Len(as))) % Len(gs)) + 1],
              fs[(((k - 1) \div Len(as)) % Len(fs)) + 1],
              as[((k - 1) % Len(as)) + 1]>>]

NonEmpty(S) == SUBSET S \ {{}}

ProductLists ==
    {ProductList(Ts, Gs, Fs, As) :
        Ts \in NonEmpty(TeffValues), Gs \in NonEmpty(LatticeValues),
        Fs \in NonEmpty(LatticeValues), As \in NonEmpty(LatticeValues)}

\* the complete lattice followed by its first k records listed once more
RepeatedLists ==
    LET full == ProductList(LatticeValues, LatticeValues, LatticeValues, LatticeValues)
    IN  {full \o SubSeq(full, 1, k) : k \in 1..MaxRepeat}

InputLists == {Named(keys) : keys \in SparseLists \cup ProductLists \cup RepeatedLists}

Queries ==
    [teff : TeffValues, logg : LatticeQueries, feh : LatticeQueries, alpha : LatticeQueries]

NoQuery == [teff |-> -1, logg |-> -1, feh |-> -1, alpha |-> -1]

(***************************************************************************)
(* compute_weighted_flux                                                   *)
(***************************************************************************)
\* wavelength_grid = None
None == <<>>
LoadFailure == [error |-> "LoadFailure"]
NoSpectrum == [wl |-> <<>>, flux |-> <<>>]

\* flux * data.weight, sample by sample (line 182)
ScaleIgnoringWeight(flux, weight) == [k \in DOMAIN flux |-> RInt(flux[k])]
Scale(flux, weight) == [k \in DOMAIN flux |-> RMul(RInt(flux[k]), weight)]

\* np.interp(x, xp, fp, left=0.0, right=0.0) at one sample x; xp increasing.
\* InterpClamping is np.interp without left/right: the end values are held.
InterpClamping(x, xp, fp, left, right) ==
    IF x < xp[1] THEN fp[1]
    ELSE IF x > xp[Len(xp)] THEN fp[Len(xp)]
    ELSE IF \E j \in DOMAIN xp : xp[j] = x
         THEN fp[CHOOSE j \in DOMAIN xp : xp[j] = x]
    ELSE LET j == CHOOSE j \in 1..(Len(xp) - 1) : xp[j] < x /\ x < xp[j + 1]
         IN  RAdd(fp[j], RMul(RSub(fp[j + 1], fp[j]), Rat(x - xp[j], xp[j + 1] - xp[j])))
Interp(x, xp, fp, left, right) ==
    IF x < xp[1] THEN left
    ELSE IF x > xp[Len(xp)] THEN right
    ELSE IF \E j \in DOMAIN xp : xp[j] = x
         THEN fp[CHOOSE j \in DOMAIN xp : xp[j] = x]
    ELSE LET j == CHOOSE j \in 1..(Len(xp) - 1) : xp[j] < x /\ x < xp[j + 1]
         IN  RAdd(fp[j], RMul(RSub(fp[j + 1], fp[j]), Rat(x - xp[j], xp[j + 1] - xp[j])))

\* the loop of lines 187-193: some loaded axis differs from the first
AxesDiffer(wls) == \E i \in 2..Len(wls) : wls[i] # wls[1]

\* np.argmin([len(w) for w in wls]): the first axis of minimal length
ShortestAxis(wls) ==
    CHOOSE i \in DOMAIN wls :
        /\ \A j \in DOMAIN wls : Len(wls[i]) <= Len(wls[j])
        /\ \A j \in 1..(i - 1) : Len(wls[j]) > Len(wls[i])

\* sum(arrays), sample by sample
SumArrays(arrays) ==
    [k \in DOMAIN arrays[1] |-> RSum([i \in DOMAIN arrays |-> arrays[i][k]])]

\* lines 184-205: the common axis, the resampled arrays and their total
Combine(wls, fluxes, wavelength_grid) ==
    LET perform_interpolation == wavelength_grid # None \/ AxesDiffer(wls)
        grid == IF wavelength_grid # None THEN wavelength_grid
                ELSE wls[ShortestAxis(wls)]
        resampled == [i \in DOMAIN wls |->
                        [k \in DOMAIN grid |-> Interp(grid[k], wls[i], fluxes[i], RInt(0), RInt(0))]]
    IN  IF perform_interpolation
        THEN [wl |-> grid, flux |-> SumArrays(resampled), new_fluxes |-> resampled]
        ELSE [wl |-> wls[1], flux |-> SumArrays(fluxes), new_fluxes |-> <<>>]

(***************************************************************************)
(* Inputs of compute_weighted_flux: weighted records, what the loader can  *)
(* return, the optional target axis.                                       *)
(***************************************************************************)
\* the positions a spectrum can be sampled at
WlValues == {0, 1, 2, 3}

\* increasing sampling axes of at least two samples
SampleAxes == {sorted(S) : S \in {T \in SUBSET WlValues : Cardinality(T) >= 2}}

\* amplitude as a function of the sampling position: flat, and curved (so
\* that a linear resampling differs from the underlying curve)
Profiles == {[x \in WlValues |-> 2], [x \in WlValues |-> x * x + 1]}

Spectra == {[wl |-> ax, flux |-> [k \in DOMAIN ax |-> P[ax[k]]]] : ax \in SampleAxes, P \in Profiles}

Weights == {Rat(1, 2), RInt(1)}

\* weighted records; only the file name and the weight are read here
WeightedLists ==
    UNION {{[i \in 1..n |-> [filename |-> i, weight |-> ws[i]]] : ws \in [1..n -> Weights]} :
           n \in 1..MaxSpectra}

\* a caller-supplied target axis: every sampling position
TargetAxes == {sorted(WlValues)}

(***************************************************************************)
(* State.                                                                  *)
(***************************************************************************)
VARIABLES
    pc,             \* grid pipeline: "start", "built", "nearest", "weighted", "single"
    datafile_list,  \* the records handed to construct_phoenix_dataframe
    df,             \* the constructed DataFrame
    query,          \* the query point of the call in progress
    nearest_df,     \* the result of find_nearest_points
    weighted,       \* the result of compute_weights
    single,         \* the result of find_nearest_datafile
    fpc,            \* compute_weighted_flux: "load", "done", "raised"
    weighted_data,  \* its list of weighted records
    wavelength_grid,\* its target axis, or None
    calls,          \* the file names the loader was invoked with, in order
    returned,       \* the spectra the loader returned, in order
    wls,            \* the local list wls
    fluxes,         \* the local list fluxes (scaled by the weights)
    new_fluxes,     \* the local list new_fluxes (resampled), when built
    result,         \* the returned spectrum
    bpc,            \* one bracketing step: "given", "selected"
    axis_values,    \* the distinct values present on the axis
    axis_target,    \* the target on that axis
    closest         \* the values the step selected

gridvars == <<pc, datafile_list, df, query, nearest_df, weighted, single>>
fluxvars == <<fpc, weighted_data, wavelength_grid, calls, returned, wls, fluxes, new_fluxes, result>>
bracketvars == <<bpc, axis_values, axis_target, closest>>
vars == <<gridvars, fluxvars, bracketvars>>

NoResult == [error |-> "none"]

GridIdle ==
    /\ pc = "start"
    /\ datafile_list = <<>>
    /\ df = NoFrame
    /\ query = NoQuery
    /\ nearest_df = NoFrame
    /\ weighted = <<>>
    /\ single = NoResult

BracketIdle ==
    /\ bpc = "given"
    /\ axis_values = {}
    /\ axis_target = -1
    /\ closest = {}

FluxIdle ==
    /\ fpc = "load"
    /\ weighted_data = <<>>
    /\ wavelength_grid = None
    /\ calls = <<>>
    /\ returned = <<>>
    /\ wls = <<>>
    /\ fluxes = <<>>
    /\ new_fluxes = <<>>
    /\ result = NoSpectrum

(***************************************************************************)
(* The grid pipeline as a state machine.                                   *)
(***************************************************************************)
Init ==
    /\ pc = "start"
    /\ datafile_list \in InputLists
    /\ df = NoFrame
    /\ query = NoQuery
    /\ nearest_df = NoFrame
    /\ weighted = <<>>
    /\ single = NoResult
    /\ FluxIdle
    /\ BracketIdle

Construct ==
    /\ pc = "start"
    /\ df' = construct_phoenix_dataframe(datafile_list)
    /\ pc' = "built"
    /\ UNCHANGED <<datafile_list, query, nearest_df, weighted, single, fluxvars, bracketvars>>

FindNearestPoints ==
    /\ pc = "built"
    /\ \E q \in Queries :
        /\ query' = q
        /\ nearest_df' \in find_nearest_points(df, q)
    /\ pc' = "nearest"
    /\ UNCHANGED <<datafile_list, df, weighted, single, fluxvars, bracketvars>>

ComputeWeights ==
    /\ pc = "nearest"
    /\ weighted' = compute_weights(nearest_df, query)
    /\ pc' = "weighted"
    /\ UNCHANGED <<datafile_list, df, query, nearest_df, single, fluxvars, bracketvars>>

FindNearestDatafile ==
    /\ pc = "built"
    /\ \E q \in Queries :
        /\ query' = q
        /\ single' = find_nearest_datafile(df, q)
    /\ pc' = "single"
    /\ UNCHANGED <<datafile_list, df, nearest_df, weighted, fluxvars, bracketvars>>

Next == Construct \/ FindNearestPoints \/ ComputeWeights \/ FindNearestDatafile

Spec == Init /\ [][Next]_vars

(***************************************************************************)
(* One call of compute_weighted_flux as a state machine.                   *)
(***************************************************************************)
FluxInit ==
    /\ GridIdle
    /\ BracketIdle
    /\ fpc = "load"
    /\ weighted_data \in WeightedLists
    /\ wavelength_grid \in {None} \cup TargetAxes
    /\ calls = <<>>
    /\ returned = <<>>
    /\ wls = <<>>
    /\ fluxes = <<>>
    /\ new_fluxes = <<>>
    /\ result = NoSpectrum

\* one iteration of the loop of lines 178-182; the loader returns a spectrum
\* or raises LoadFailure, which leaves the function.  LoadNextRetrying calls
\* the loader again for the same record after a failure.
LoadNextRetrying ==
    /\ fpc = "load"
    /\ Len(wls) < Len(weighted_data)
    /\ Len(calls) <= Len(weighted_data)
    /\ LET data == weighted_data[Len(wls) + 1] IN
        /\ calls' = Append(calls, data.filename)
        /\ \E out \in Spectra \cup {LoadFailure} :
            IF out = LoadFailure
            THEN UNCHANGED <<fpc, returned, wls, fluxes>>
            ELSE /\ returned' = Append(returned, out)
                 /\ wls' = Append(wls, out.wl)
                 /\ fluxes' = Append(fluxes, Scale(out.flux, data.weight))
                 /\ fpc' = fpc
    /\ UNCHANGED <<weighted_data, wavelength_grid, new_fluxes, result, gridvars, bracketvars>>
LoadNext ==
    /\ fpc = "load"
    /\ Len(wls) < Len(weighted_data)
    /\ LET data == weighted_data[Len(wls) + 1] IN
        /\ calls' = Append(calls, data.filename)
        /\ \E out \in Spectra \cup {LoadFailure} :
            IF out = LoadFailure
            THEN /\ fpc' = "raised"
                 /\ UNCHANGED <<returned, wls, fluxes>>
            ELSE /\ returned' = Append(returned, out)
                 /\ wls' = Append(wls, out.wl)
                 /\ fluxes' = Append(fluxes, Scale(out.flux, data.weight))
                 /\ fpc' = fpc
    /\ UNCHANGED <<weighted_data, wavelength_grid, new_fluxes, result, gridvars, bracketvars>>

\* lines 184-205
CombineLoaded ==
    /\ fpc = "load"
    /\ Len(wls) = Len(weighted_data)
    /\ LET c == Combine(wls, fluxes, wavelength_grid) IN
        /\ result' = [wl |-> c.wl, flux |-> c.flux]
        /\ new_fluxes' = c.new_fluxes
    /\ fpc' = "done"
    /\ UNCHANGED <<weighted_data, wavelength_grid, calls, returned, wls, fluxes, gridvars, bracketvars>>

FluxNext == LoadNext \/ CombineLoaded

FluxSpec == FluxInit /\ [][FluxNext]_vars

(***************************************************************************)
(* One bracketing step of find_nearest_points (lines 49-52, and the same   *)
(* three lines for logg, feh and alpha) on its own.                        *)
(***************************************************************************)
BracketInit ==
    /\ GridIdle
    /\ FluxIdle
    /\ bpc = "given"
    /\ axis_values \in NonEmpty(TeffValues)
    /\ axis_target \in TeffValues
    /\ closest = {}

BracketAxis ==
    /\ bpc = "given"
    /\ closest' \in BracketValues(axis_values, axis_target)
    /\ bpc' = "selected"
    /\ UNCHANGED <<axis_values, axis_target, gridvars, fluxvars>>

BracketNext == BracketAxis

BracketSpec == BracketInit /\ [][BracketNext]_vars

(***************************************************************************)
(* Vocabulary of the claims about the grid pipeline.                       *)
(***************************************************************************)
Key(r) == <<r.teff, r.logg, r.feh, r.alpha>>
AxisSet == Range(Axes)

\* every arrangement of the four axes
AxisOrders ==
    {o \in [1..4 -> AxisSet] : \A i, j \in 1..4 : i # j => o[i] # o[j]}

\* the grid holds every combination of the values present on its axes
IsCompleteGrid(rows) ==
    {Key(rows[i]) : i \in DOMAIN rows} =
        LevelValues(rows, "teff") \X LevelValues(rows, "logg")
            \X LevelValues(rows, "feh") \X LevelValues(rows, "alpha")

\* on every axis the two values nearest the query are determined by the
\* distances alone: no two values tie for the second place
NoSecondPlaceTie(rows, q) ==
    \A axis \in AxisSet : Cardinality(TwoClosest(LevelValues(rows, axis), q[axis])) = 1

InBoundingBox(rows, q) ==
    \A axis \in AxisSet :
        /\ SetMin(LevelValues(rows, axis)) <= q[axis]
        /\ q[axis] <= SetMax(LevelValues(rows, axis))

WeightsOf(ws) == [i \in DOMAIN ws |-> ws[i].weight]

\* C1: for a grid with at least two distinct values on each axis and a query
\* inside its per-axis bounding box, the weights returned by compute_weights
\* on the output of find_nearest_points sum to 1.
C1_WeightsSumToOne ==
    (/\ pc = "weighted"
     /\ \A axis \in AxisSet : Cardinality(LevelValues(df.rows, axis)) >= 2
     /\ InBoundingBox(df.rows, query))
    => RSum(WeightsOf(weighted)) = RInt(1)

\* C2 (as stated): bracketing the axes in any order, each step on the values
\* present among the survivors of the earlier steps, gives the records that
\* the order teff, logg, feh, alpha gives.
C2_AnyOrderSameRecords ==
    pc = "nearest" =>
        \A order \in AxisOrders :
            StepsInOrder({df.rows}, order, query) = StepsInOrder({df.rows}, Axes, query)

\* C2 (amended): on a complete grid and for a query with no second-place tie
\* on any axis, every order of the axes gives exactly the records that
\* find_nearest_points returned.
C2_AnyOrderSameOnCompleteGrid ==
    (/\ pc = "nearest"
     /\ IsCompleteGrid(df.rows)
     /\ NoSecondPlaceTie(df.rows, query))
    => \A order \in AxisOrders :
           StepsInOrder({df.rows}, order, query) = {nearest_df.rows}

\* a complete grid with two values on at least two axes, a query strictly
\* between the values of one of them and on a node of another, bracketed
C2_Witness ==
    /\ pc = "nearest"
    /\ IsCompleteGrid(df.rows)
    /\ NoSecondPlaceTie(df.rows, query)
    /\ Cardinality(LevelValues(df.rows, "teff")) >= 3
    /\ Cardinality(LevelValues(df.rows, "logg")) = 2
    /\ query.teff \notin LevelValues(df.rows, "teff")
    /\ query.logg \in LevelValues(df.rows, "logg")
    /\ Len(nearest_df.rows) < Len(df.rows)
    /\ Len(nearest_df.rows) >= 2

\* C3: a query equal to a grid node on all four axes yields exactly one
\* weighted record: that node, with weight 1.
C3_ExactNodeSingleRecord ==
    (/\ pc = "weighted"
     /\ \E i \in DOMAIN df.rows : Key(df.rows[i]) = Key(query))
    => /\ Len(weighted) = 1
       /\ Key(weighted[1]) = Key(query)
       /\ weighted[1].weight = RInt(1)
       /\ \E i \in DOMAIN df.rows :
            /\ Key(df.rows[i]) = Key(query)
            /\ df.rows[i].filename = weighted[1].filename

\* the axis-local weight of the claim, from the candidates' values on the axis
AxisLocalWeight(candidates, axis, value, q) ==
    LET V == LevelValues(candidates, axis)
        lower == SetMin(V)
        upper == SetMax(V)
    IN  IF Cardinality(V) = 1 THEN RInt(1)
        ELSE IF value = lower THEN Rat(upper - q[axis], upper - lower)
        ELSE Rat(q[axis] - lower, upper - lower)

\* the end-to-end example: teff in {5000, 6000} (here 0 and 2), one value on
\* every other axis, queried halfway in teff and on the node elsewhere
IsHalfwayExample ==
    /\ Len(df.rows) = 2
    /\ df.rows[1].teff = 0 /\ df.rows[2].teff = 2
    /\ \A axis \in AxisSet \ {"teff"} :
         df.rows[1][axis] = df.rows[2][axis] /\ query[axis] = df.rows[1][axis]
    /\ query.teff = 1

\* C4: every returned record's weight is the product of its four axis-local
\* weights (1 on an axis with one value among the candidates, 1 - t for the
\* lower and t for the upper of two values); the halfway example yields two
\* records of weight 1/2 each.
C4_WeightIsProductOfAxisWeights ==
    pc = "weighted" =>
        /\ \A i \in DOMAIN weighted :
             weighted[i].weight =
                RMul(RMul(AxisLocalWeight(nearest_df.rows, "teff", weighted[i].teff, query),
                          AxisLocalWeight(nearest_df.rows, "logg", weighted[i].logg, query)),
                     RMul(AxisLocalWeight(nearest_df.rows, "feh", weighted[i].feh, query),
                          AxisLocalWeight(nearest_df.rows, "alpha", weighted[i].alpha, query)))
        /\ IsHalfwayExample =>
             /\ Len(weighted) = 2
             /\ weighted[1].weight = Rat(1, 2)
             /\ weighted[2].weight = Rat(1, 2)

\* weights computed where one axis has a single value off the query, another
\* has two values around the query, and a record of each kind is returned
C4_Witness ==
    /\ pc = "weighted"
    /\ Len(weighted) >= 2
    /\ \E a1, a2 \in AxisSet :
         /\ Cardinality(LevelValues(nearest_df.rows, a1)) = 1
         /\ query[a1] \notin LevelValues(nearest_df.rows, a1)
         /\ Cardinality(LevelValues(nearest_df.rows, a2)) = 2
         /\ \E i, j \in DOMAIN weighted :
              /\ weighted[i][a2] < query[a2] /\ query[a2] < weighted[j][a2]
              /\ weighted[i].weight # weighted[j].weight

\* C5: find_nearest_points returns at least 1 and at most 16 records.
C5_BetweenOneAndSixteen ==
    pc = "nearest" => Len(nearest_df.rows) >= 1 /\ Len(nearest_df.rows) <= 16

DuplicateKey == [error |-> "DuplicateKey"]

\* C6: construction from a list in which two records share a key fails with
\* DuplicateKey or keeps the first of them; the index never holds two records
\* under one key.
C6_NoTwoRecordsUnderOneKey ==
    pc # "start" =>
        \/ df = DuplicateKey
        \/ /\ \A i, j \in DOMAIN df.rows : Key(df.rows[i]) = Key(df.rows[j]) => i = j
           /\ \A i \in DOMAIN df.rows :
                \A k \in DOMAIN datafile_list :
                    Key(datafile_list[k]) = Key(df.rows[i]) => df.rows[i].filename <= k

\* C7: find_nearest_datafile on a constructed index returns the record at
\* the minimal raw Euclidean distance, the first in input order among ties.
C7_NearestSingleIsFirstMinimum ==
    pc = "single" =>
        \E i \in DOMAIN datafile_list :
            /\ single = datafile_list[i]
            /\ \A j \in DOMAIN datafile_list :
                 Distance2(datafile_list[i], query) <= Distance2(datafile_list[j], query)
            /\ \A j \in 1..(i - 1) :
                 Distance2(datafile_list[j], query) > Distance2(datafile_list[i], query)

(***************************************************************************)
(* Claims about compute_weighted_flux.                                     *)
(***************************************************************************)
\* the call returned, no target axis was given
ReturnedWithoutTarget == fpc = "done" /\ wavelength_grid = None

\* sample x lies outside the domain of axis xp
OutsideDomain(x, xp) == x < xp[1] \/ x > xp[Len(xp)]

\* v is the value at x of the straight line through two neighbouring samples
\* of (xp, fp), or the sample itself when x is a sample of xp
OnPolyline(v, x, xp, fp) ==
    \/ \E j \in DOMAIN xp : xp[j] = x /\ v = fp[j]
    \/ \E j \in 1..(Len(xp) - 1) :
         /\ xp[j] < x /\ x < xp[j + 1]
         /\ RMul(v, RInt(xp[j + 1] - xp[j])) =
              RAdd(RMul(fp[j], RInt(xp[j + 1] - x)), RMul(fp[j + 1], RInt(x - xp[j])))

\* C8: without a target axis and with differing loaded axes, the returned
\* axis is that of the loaded spectrum with the fewest samples, every
\* spectrum is resampled linearly onto it, a spectrum contributes 0 at each
\* sample outside its domain, and the result is the sum of the contributions.
C8_ResampledOntoShortestAxis ==
    (ReturnedWithoutTarget /\ AxesDiffer(wls)) =>
        /\ \E i \in DOMAIN wls :
             /\ result.wl = wls[i]
             /\ \A j \in DOMAIN wls : Len(wls[i]) <= Len(wls[j])
        /\ Len(new_fluxes) = Len(wls)
        /\ \A i \in DOMAIN wls : \A k \in DOMAIN result.wl :
             IF OutsideDomain(result.wl[k], wls[i])
             THEN new_fluxes[i][k] = RInt(0)
             ELSE OnPolyline(new_fluxes[i][k], result.wl[k], wls[i],
                             Scale(returned[i].flux, weighted_data[i].weight))
        /\ \A k \in DOMAIN result.wl :
             result.flux[k] = RSum([i \in DOMAIN wls |-> new_fluxes[i][k]])

\* two spectra of different extent: a sample of the common axis lies outside
\* the domain of one of them, whose amplitude at its nearest end is not 0,
\* and another sample falls strictly between two samples of a spectrum
C8_Witness ==
    /\ ReturnedWithoutTarget
    /\ AxesDiffer(wls)
    /\ \E i \in DOMAIN wls : \E k \in DOMAIN result.wl :
         /\ result.wl[k] < wls[i][1]
         /\ fluxes[i][1] # RInt(0)
         /\ new_fluxes[i][k] = RInt(0)
    /\ \E i \in DOMAIN wls : \E k \in DOMAIN result.wl :
         /\ ~OutsideDomain(result.wl[k], wls[i])
         /\ \A j \in DOMAIN wls[i] : wls[i][j] # result.wl[k]

\* C9: without a target axis and with all loaded axes equal, the shared axis
\* is returned with, at every sample, the sum over the records of weight
\* times amplitude, and nothing is resampled; two records of weight 1/2 give
\* the average of the two amplitude arrays.
C9_EqualAxesDirectSum ==
    (ReturnedWithoutTarget /\ ~AxesDiffer(wls)) =>
        /\ result.wl = returned[1].wl
        /\ new_fluxes = <<>>
        /\ \A k \in DOMAIN result.wl :
             result.flux[k] =
                RSum([i \in DOMAIN returned |->
                        RMul(weighted_data[i].weight, RInt(returned[i].flux[k]))])
        /\ (/\ Len(weighted_data) = 2
            /\ weighted_data[1].weight = Rat(1, 2)
            /\ weighted_data[2].weight = Rat(1, 2))
           => \A k \in DOMAIN result.wl :
                RMul(RInt(2), result.flux[k]) =
                    RInt(returned[1].flux[k] + returned[2].flux[k])

\* two records of weight 1/2 with equal axes and different amplitudes
C9_Witness ==
    /\ ReturnedWithoutTarget
    /\ Len(weighted_data) = 2
    /\ weighted_data[1].weight = Rat(1, 2)
    /\ weighted_data[2].weight = Rat(1, 2)
    /\ returned[1].wl = returned[2].wl
    /\ returned[1].flux # returned[2].flux

\* C10: the loader is invoked once per weighted record, in list order; after
\* a LoadFailure the invocation is not repeated, no further record is loaded
\* and no spectrum is returned.
C10_OneLoadPerRecordNoRetry ==
    /\ Len(calls) <= Len(weighted_data)
    /\ \A k \in DOMAIN calls : calls[k] = weighted_data[k].filename
    /\ fpc = "load" => Len(calls) = Len(returned)
    /\ fpc = "done" => Len(calls) = Len(weighted_data) /\ Len(returned) = Len(calls)
    /\ fpc = "raised" => /\ Len(calls) = Len(returned) + 1
                         /\ result = NoSpectrum
                         /\ new_fluxes = <<>>
                         /\ ~ENABLED FluxNext

\* the loader failed on the first of several records
C10_Witness ==
    /\ fpc = "raised"
    /\ Len(weighted_data) >= 2
    /\ Len(calls) = 1

(***************************************************************************)
(* Claim about the bracketing step.                                        *)
(***************************************************************************)
\* the n smallest / largest values of a set of numbers
RECURSIVE Smallest(_, _)
Smallest(S, n) ==
    IF n = 0 \/ S = {} THEN {} ELSE {SetMin(S)} \cup Smallest(S \ {SetMin(S)}, n - 1)

RECURSIVE Largest(_, _)
Largest(S, n) ==
    IF n = 0 \/ S = {} THEN {} ELSE {SetMax(S)} \cup Largest(S \ {SetMax(S)}, n - 1)

\* C11: the bracketing step selects the value equal to the target when it is
\* present; the single present value when the axis has one; otherwise two
\* present values such that no other present value is nearer the target than
\* either of them; a target below the minimum selects the two smallest
\* values, one above the maximum the two largest; the step always selects.
C11_BracketSelectsNearest ==
    /\ bpc = "given" => ENABLED BracketAxis
    /\ bpc = "selected" =>
        /\ closest # {} /\ closest \subseteq (axis_values \cup {axis_target})
        /\ axis_target \in axis_values => closest = {axis_target}
        /\ Cardinality(axis_values) = 1 => closest = axis_values
        /\ (axis_target \notin axis_values /\ Cardinality(axis_values) >= 2) =>
             /\ Cardinality(closest) = 2
             /\ closest \subseteq axis_values
             /\ \A s \in closest : \A o \in axis_values \ closest :
                  Abs(s - axis_target) <= Abs(o - axis_target)
        /\ (axis_target < SetMin(axis_values) /\ Cardinality(axis_values) >= 2) =>
             closest = Smallest(axis_values, 2)
        /\ (axis_target > SetMax(axis_values) /\ Cardinality(axis_values) >= 2) =>
             closest = Largest(axis_values, 2)

\* three or more values, all below the target: the two largest selected
C11_Witness ==
    /\ bpc = "selected"
    /\ Cardinality(axis_values) >= 3
    /\ axis_target > SetMax(axis_values)
    /\ closest = Largest(axis_values, 2)

====
